---- MODULE Spec2Model ----
(***************************************************************************)
(* Memory subsystem of the emotional chatbot backend:                      *)
(*   services/memoryService.js (MemoryService), models/Memory.js,          *)
(*   routes/memory.js and the POST /message and POST /feedback handlers of *)
(*   routes/chat.js, with the parts of services/llmService.js they call.   *)
(*                                                                         *)
(* Text is kept as TLA+ strings; the regular expressions of               *)
(* extractInsights are evaluated character by character (leftmost match,   *)
(* alternatives in order, greedy \w+ and \d+, lazy (.+?) up to '.', ','    *)
(* or the end of the input).  Fractions are kept in tenths: sentiment 0.8  *)
(* is 8, effectiveness 0.5 is 5, trustLevel 7.1 is 71.  Time is in days.   *)
(***************************************************************************)
EXTENDS Integers, Sequences, FiniteSets, TLC

VARIABLES
    store,      \* the Memory collection, in insertion (natural) order; _id = index
    now,        \* the wall clock, in days
    trust,      \* userId -> user.relationships.trustLevel, in tenths
    msgs,       \* assistant messages saved: [userId, sessionId, memoryTriggered]
    last,       \* the outcome of the operation that completed last
    nops,       \* number of steps taken so far
    reqs,       \* requests in flight (interleaved specification only)
    unrelated   \* per owner: progress of the long-term recall scenario

vars == <<store, now, trust, msgs, last, nops, reqs, unrelated>>

-----------------------------------------------------------------------------
(* Bounds of the model.                                                    *)

MaxOps == 3
MaxReqs == 3
MaxNow == 2
MaxSweepDocs == 2
MaxRankOps == 4
FillerTurns == 12

-----------------------------------------------------------------------------
(* Strings.                                                                *)

None == "<none>"

CharAt(s, i) == SubSeq(s, i, i)

UpperCase == <<"A","B","C","D","E","F","G","H","I","J","K","L","M",
               "N","O","P","Q","R","S","T","U","V","W","X","Y","Z">>
LowerCase == <<"a","b","c","d","e","f","g","h","i","j","k","l","m",
               "n","o","p","q","r","s","t","u","v","w","x","y","z">>

Digits == {"0","1","2","3","4","5","6","7","8","9"}

\* \w of a JavaScript regular expression: [A-Za-z0-9_]
WordChars == {UpperCase[i] : i \in 1..26} \cup {LowerCase[i] : i \in 1..26}
                \cup Digits \cup {"_"}

UpperSet == {UpperCase[i] : i \in 1..26}
LowerOf == [c \in UpperSet |-> LowerCase[CHOOSE i \in 1..26 : UpperCase[i] = c]]

LowerChar(c) == IF c \in UpperSet THEN LowerOf[c] ELSE c

RECURSIVE LowerFrom(_, _)
LowerFrom(s, i) ==
    IF i > Len(s) THEN "" ELSE LowerChar(CharAt(s, i)) \o LowerFrom(s, i + 1)

\* String.prototype.toLowerCase
ToLowerCase(s) == LowerFrom(s, 1)

\* s has lit at position pos
HasAt(s, pos, lit) ==
    /\ pos >= 1
    /\ pos + Len(lit) - 1 <= Len(s)
    /\ SubSeq(s, pos, pos + Len(lit) - 1) = lit

\* String.prototype.includes
Includes(s, part) == \E p \in 1..(Len(s) + 1) : HasAt(s, p, part)

RECURSIVE RunEnd(_, _, _)
\* the position after the longest run of characters of class cls starting at pos
RunEnd(s, pos, cls) ==
    IF pos <= Len(s) /\ CharAt(s, pos) \in cls THEN RunEnd(s, pos + 1, cls) ELSE pos

RECURSIVE TrimLeft(_)
TrimLeft(s) ==
    IF Len(s) > 0 /\ CharAt(s, 1) = " " THEN TrimLeft(SubSeq(s, 2, Len(s))) ELSE s

RECURSIVE TrimRight(_)
TrimRight(s) ==
    IF Len(s) > 0 /\ CharAt(s, Len(s)) = " "
    THEN TrimRight(SubSeq(s, 1, Len(s) - 1)) ELSE s

\* String.prototype.trim (the inputs hold no white space but blanks)
Trim(s) == TrimRight(TrimLeft(s))

RECURSIVE SplitFrom(_, _, _)
SplitFrom(s, i, cur) ==
    IF i > Len(s) THEN <<cur>>
    ELSE IF CharAt(s, i) = " " THEN <<cur>> \o SplitFrom(s, i + 1, "")
    ELSE SplitFrom(s, i + 1, cur \o CharAt(s, i))

\* String.prototype.split(' ')
SplitBlank(s) == SplitFrom(s, 1, "")

-----------------------------------------------------------------------------
(* The utterances the model draws its inputs from.                         *)

U25 == "I'm 25"
U30 == "Actually, I'm 30"
U25yo == "I'm 25yo"
ULove == "I love this amazing wonderful music"
UFiller == "How are you today?"
UBlue == "My favorite color is blue and I study at MIT"

Utterances == {U25, ULove, UFiller}
ChatUtterances == {U25, ULove}
TurnUtterances == {U25, U30, U25yo, ULove, UFiller}
AllUtterances == TurnUtterances \cup {UBlue}
TurnEmotions == {None, "sad"}

-----------------------------------------------------------------------------
(* llmService.analyzeSentiment                                             *)

PositiveWords == {"happy", "great", "amazing", "wonderful", "excited", "love",
                  "perfect", "awesome"}
NegativeWords == {"sad", "angry", "frustrated", "disappointed", "terrible",
                  "awful", "hate", "worried"}

\* the raw word score: +1 for every positive word, -1 for every negative one
WordScore(text) ==
    LET words == SplitBlank(ToLowerCase(text))
        pos == Cardinality({i \in 1..Len(words) : words[i] \in PositiveWords})
        neg == Cardinality({i \in 1..Len(words) : words[i] \in NegativeWords})
    IN  pos - neg

\* sentimentAnalysis.emotion
SentimentEmotion(text) ==
    LET low == ToLowerCase(text)
        sc == WordScore(text)
        e0 == IF sc > 0 THEN "positive" ELSE IF sc < 0 THEN "negative" ELSE "neutral"
        e1 == IF Includes(low, "anxious") \/ Includes(low, "nervous") THEN "anxious" ELSE e0
        e2 == IF Includes(low, "sad") \/ Includes(low, "depressed") THEN "sad" ELSE e1
        e3 == IF Includes(low, "angry") \/ Includes(low, "mad") THEN "angry" ELSE e2
    IN  IF Includes(low, "excited") \/ Includes(low, "thrilled") THEN "excited" ELSE e3

\* sentimentAnalysis.score > 0.5, with score = max(-1, min(1, raw / 5))
ScoreAboveHalf(text) == 2 * WordScore(text) > 5

\* analyzeSentiment on the utterances of the model, computed once
SentimentOf ==
    [m \in AllUtterances |-> [emotion |-> SentimentEmotion(m),
                              above |-> ScoreAboveHalf(m)]]

-----------------------------------------------------------------------------
(* memoryService.extractInsights                                           *)

Lit(l) == [lit |-> l, cap |-> "none", suf |-> ""]
Word(l) == [lit |-> l, cap |-> "word", suf |-> ""]
Num(l, s) == [lit |-> l, cap |-> "digits", suf |-> s]
Lazy(l) == [lit |-> l, cap |-> "lazy", suf |-> ""]

Rule(a, t, imp, sen) == [alts |-> a, type |-> t, importance |-> imp, sentiment |-> sen]

\* personalPatterns, preferencePatterns, emotionalPatterns, goalPatterns,
\* eventPatterns, concatenated as allPatterns
AllPatterns == <<
    Rule(<<Word("my name is "), Word("i'm "), Word("call me ")>>, "personal_fact", 9, 0),
    Rule(<<Num("i am ", " years old"), Num("i'm ", "")>>, "personal_fact", 7, 0),
    Rule(<<Lit("i work as"), Lit("my job is"), Lazy("i'm a ")>>, "personal_fact", 8, 0),
    Rule(<<Lit("i live in"), Lit("i'm from"), Lazy("i'm in ")>>, "personal_fact", 6, 0),
    Rule(<<Lit("i love"), Lit("i really like"), Lit("i enjoy"),
           Lazy("i'm passionate about ")>>, "preference", 7, 8),
    Rule(<<Lit("i hate"), Lit("i can't stand"), Lazy("i dislike ")>>, "preference", 7, -8),
    Rule(<<Lit("my favorite"), Lazy("i prefer ")>>, "preference", 6, 6),
    Rule(<<Lit("i feel"), Lit("i'm feeling"), Lazy("i've been feeling ")>>,
         "emotional_pattern", 8, 0),
    Rule(<<Lit("i'm worried about"), Lit("i'm concerned about"),
           Lazy("i'm anxious about ")>>, "concern", 9, 0),
    Rule(<<Lazy("my partner "), Lazy("my boyfriend "), Lazy("my girlfriend "),
           Lazy("my husband "), Lazy("my wife "), Lazy("my friend ")>>,
         "relationship", 8, 0),
    Rule(<<Lit("i want to"), Lit("i hope to"), Lit("my goal is"),
           Lazy("i'm trying to ")>>, "goal", 8, 0),
    Rule(<<Lit("i need to"), Lit("i have to"), Lazy("i must ")>>, "goal", 7, 0),
    Rule(<<Lit("yesterday"), Lit("last week"), Lit("last month"), Lazy("recently ")>>,
         "significant_event", 7, 0),
    Rule(<<Lit("when i was"), Lit("growing up"), Lazy("as a child ")>>,
         "significant_event", 6, 0) >>

RECURSIVE LazyEnd(_, _)
\* the last position of the shortest (.+?) that starts at q and is followed by
\* '.', ',' or the end of the input
LazyEnd(msg, e) ==
    IF e >= Len(msg) \/ CharAt(msg, e + 1) \in {".", ","} THEN e ELSE LazyEnd(msg, e + 1)

\* one alternative of a pattern tried at position pos: [ok, text], text being
\* match[1] || match[2] || match[3] || match[0]
MatchAlt(msg, low, pos, alt) ==
    LET q == pos + Len(alt.lit)
    IN  IF ~HasAt(low, pos, alt.lit) THEN [ok |-> FALSE, text |-> ""]
        ELSE CASE alt.cap = "none" ->
                    [ok |-> TRUE, text |-> SubSeq(msg, pos, q - 1)]
               [] alt.cap = "word" ->
                    LET e == RunEnd(msg, q, WordChars)
                    IN  [ok |-> e > q, text |-> SubSeq(msg, q, e - 1)]
               [] alt.cap = "digits" ->
                    LET e == RunEnd(msg, q, Digits)
                    IN  [ok |-> e > q /\ HasAt(low, e, alt.suf),
                         text |-> SubSeq(msg, q, e - 1)]
               [] alt.cap = "lazy" ->
                    IF q > Len(msg) THEN [ok |-> FALSE, text |-> ""]
                    ELSE [ok |-> TRUE, text |-> SubSeq(msg, q, LazyEnd(msg, q))]

\* message.match(pattern.pattern): the leftmost match, alternatives in order
MatchRule(msg, rule) ==
    LET low == ToLowerCase(msg)
        hits == {p \in 1..Len(msg) :
                    \E a \in 1..Len(rule.alts) : MatchAlt(msg, low, p, rule.alts[a]).ok}
    IN  IF hits = {} THEN [ok |-> FALSE, text |-> ""]
        ELSE LET p == CHOOSE x \in hits : \A y \in hits : x <= y
                 a == CHOOSE x \in 1..Len(rule.alts) :
                        /\ MatchAlt(msg, low, p, rule.alts[x]).ok
                        /\ \A y \in 1..(x - 1) : ~MatchAlt(msg, low, p, rule.alts[y]).ok
             IN  MatchAlt(msg, low, p, rule.alts[a])

TagEmotions == {"happy", "sad", "angry", "excited", "nervous", "anxious", "confident",
                "frustrated"}
TagTopics == {"work", "family", "relationship", "health", "hobby", "travel", "money",
              "education"}
TagActivities == {"exercise", "reading", "music", "cooking", "sports", "gaming", "art",
                  "technology"}

\* memoryService.extractTags, as a set
ExtractTags(content, type) ==
    {type} \cup {k \in TagEmotions \cup TagTopics \cup TagActivities :
                    Includes(ToLowerCase(content), k)}

\* memoryService.emotionToSentiment, in tenths
EmotionToSentiment(emotion) ==
    CASE emotion = "happy" -> 8
      [] emotion = "excited" -> 9
      [] emotion = "content" -> 6
      [] emotion = "sad" -> -7
      [] emotion = "angry" -> -8
      [] emotion = "frustrated" -> -6
      [] emotion = "anxious" -> -5
      [] emotion = "nervous" -> -4
      [] OTHER -> 0

RECURSIVE RuleInsights(_, _)
RuleInsights(msg, k) ==
    IF k > Len(AllPatterns) THEN <<>>
    ELSE LET rule == AllPatterns[k]
             m == MatchRule(msg, rule)
         IN  (IF m.ok
              THEN <<[type |-> rule.type, content |-> Trim(m.text),
                      importance |-> rule.importance, sentiment |-> rule.sentiment,
                      tags |-> ExtractTags(m.text, rule.type)]>>
              ELSE <<>>) \o RuleInsights(msg, k + 1)

\* a faulty variant: the additional candidate for every emotion that is present
ExtractInsightsAnyEmotion(msg, emotion) ==
    RuleInsights(msg, 1) \o
    (IF emotion # None
     THEN <<[type |-> "emotional_pattern",
             content |-> "User expressed " \o emotion \o " emotion in conversation",
             importance |-> 6, sentiment |-> EmotionToSentiment(emotion),
             tags |-> {emotion, "emotional_pattern"}]>>
     ELSE <<>>)

\* extractInsights(message, context); emotion = None when context.emotion is absent
ExtractInsights(msg, emotion) ==
    RuleInsights(msg, 1) \o
    (IF emotion # None /\ emotion # "neutral"
     THEN <<[type |-> "emotional_pattern",
             content |-> "User expressed " \o emotion \o " emotion in conversation",
             importance |-> 6, sentiment |-> EmotionToSentiment(emotion),
             tags |-> {emotion, "emotional_pattern"}]>>
     ELSE <<>>)

\* extractInsights on the inputs of the model, computed once
AllEmotions == TurnEmotions \cup {SentimentOf[m].emotion : m \in AllUtterances}
InsightsOf ==
    [m \in AllUtterances |-> [e \in AllEmotions |-> ExtractInsights(m, e)]]

-----------------------------------------------------------------------------
(* models/Memory.js: the documents of the Memory collection                *)

MemoryTypes == {"personal_fact", "preference", "emotional_pattern", "significant_event",
                "relationship", "goal", "concern", "achievement", "routine", "value",
                "trigger", "coping_mechanism", "communication_style", "fake_memory"}

\* a faulty variant: save() without the enum and the min/max validators
SchemaValidOpen(doc) == doc.content # ""

\* the validators of memorySchema that run on save(): required fields, the enum
\* of type, min/max of importance, sentiment and effectiveness
SchemaValid(doc) ==
    /\ doc.content # ""
    /\ doc.type \in MemoryTypes
    /\ doc.importance >= 1 /\ doc.importance <= 10
    /\ doc.sentiment >= -10 /\ doc.sentiment <= 10
    /\ doc.effectiveness >= 0 /\ doc.effectiveness <= 10

\* new Memory({userId, ...memoryData, usage: {accessCount: 0, lastAccessed: new
\* Date(), effectiveness: 0.5}}); nothing in the repository sets
\* emotional_context.userEmotionWhenShared or usage.relevantContexts
NewMemory(userId, data, t) ==
    [userId |-> userId, type |-> data.type, content |-> data.content,
     importance |-> data.importance, sentiment |-> data.sentiment,
     tags |-> data.tags, source |-> data.source,
     userEmotionWhenShared |-> None, relevantContexts |-> {},
     accessCount |-> 0, lastAccessed |-> t, effectiveness |-> 5,
     isActive |-> TRUE, deleted |-> FALSE, updatedAt |-> t]

Ids(st) == 1..Len(st)

\* the documents a query can see: hard-deleted ones are gone (their slot is kept
\* so that _id stays the insertion index)
Present(st) == {i \in Ids(st) : ~st[i].deleted}

\* { $regex: pattern, $options: 'i' } on a field value, for a pattern without
\* regular-expression metacharacters: a case-insensitive substring test
RegexTest(pattern, value) == Includes(ToLowerCase(value), ToLowerCase(pattern))

-----------------------------------------------------------------------------
(* memoryService.findSimilarMemory, updateMemory, storeMemory              *)

\* a faulty variant: the query without its userId condition
SimilarQueryAnyOwner(st, i, userId, insight) ==
    /\ st[i].type = insight.type
    /\ st[i].isActive
    /\ (insight.type = "personal_fact" => RegexTest(insight.content, st[i].content))
    /\ (insight.type = "preference" => st[i].tags \cap insight.tags # {})

\* a faulty variant: the content condition for the insights of every type
SimilarQueryContentAlways(st, i, userId, insight) ==
    /\ st[i].userId = userId
    /\ st[i].type = insight.type
    /\ st[i].isActive
    /\ RegexTest(insight.content, st[i].content)
    /\ (insight.type = "preference" => st[i].tags \cap insight.tags # {})

SimilarQuery(st, i, userId, insight) ==
    /\ st[i].userId = userId
    /\ st[i].type = insight.type
    /\ st[i].isActive
    /\ (insight.type = "personal_fact" => RegexTest(insight.content, st[i].content))
    /\ (insight.type = "preference" => st[i].tags \cap insight.tags # {})

\* Memory.findOne(query): the first match in natural order, 0 for null
FindSimilarMemory(st, userId, insight) ==
    LET hits == {i \in Present(st) : SimilarQuery(st, i, userId, insight)}
    IN  IF hits = {} THEN 0 ELSE CHOOSE i \in hits : \A j \in hits : i <= j

Max2(a, b) == IF a >= b THEN a ELSE b

\* a faulty variant: updateMemory that takes the importance of the insight
UpdateMemoryTakeImportance(st, id, insight, t) ==
    IF id \notin Present(st) THEN st
    ELSE LET doc == [st[id] EXCEPT !.content = insight.content,
                                   !.importance = insight.importance,
                                   !.lastAccessed = t,
                                   !.updatedAt = t]
         IN  IF SchemaValid(doc) THEN [st EXCEPT ![id] = doc] ELSE st

\* updateMemory(memoryId, newInsight): the store after it (unchanged when
\* findById finds nothing or save() rejects the document)
UpdateMemory(st, id, insight, t) ==
    IF id \notin Present(st) THEN st
    ELSE LET doc == [st[id] EXCEPT !.content = insight.content,
                                   !.importance = Max2(@, insight.importance),
                                   !.lastAccessed = t,
                                   !.updatedAt = t]
         IN  IF SchemaValid(doc) THEN [st EXCEPT ![id] = doc] ELSE st

\* storeMemory(userId, memoryData): [ok, store]; ok = FALSE when save() throws
StoreMemory(st, userId, data, t) ==
    LET doc == NewMemory(userId, data, t)
    IN  IF SchemaValid(doc) THEN [ok |-> TRUE, store |-> Append(st, doc)]
        ELSE [ok |-> FALSE, store |-> st]

-----------------------------------------------------------------------------
(* memoryService.processConversationForMemories                            *)

\* the memoryData that processConversationForMemories builds from an insight
InsightData(insight) ==
    [type |-> insight.type, content |-> insight.content,
     importance |-> IF insight.importance = 0 THEN 5 ELSE insight.importance,
     sentiment |-> insight.sentiment, tags |-> insight.tags, source |-> "explicit"]

\* The for loop over the insights from index k on.  fail names the store
\* operations that fail during this call.  acc = [store, stored, merged, threw]:
\* stored is storedMemories, merged the ids findSimilarMemory returned (they are
\* updated but not pushed), threw says that storeMemory threw out of the loop.
RECURSIVE ResolveFrom(_, _, _, _, _, _)
ResolveFrom(acc, userId, insights, k, t, fail) ==
    IF k > Len(insights) \/ acc.threw THEN acc
    ELSE LET insight == insights[k]
             existing == IF "findSimilar" \in fail THEN 0
                         ELSE FindSimilarMemory(acc.store, userId, insight)
         IN  IF existing # 0
             THEN ResolveFrom(
                    [acc EXCEPT !.store = IF "update" \in fail THEN @
                                          ELSE UpdateMemory(@, existing, insight, t),
                                !.merged = Append(@, existing)],
                    userId, insights, k + 1, t, fail)
             ELSE LET r == IF "store" \in fail THEN [ok |-> FALSE, store |-> acc.store]
                           ELSE StoreMemory(acc.store, userId, InsightData(insight), t)
                  IN  IF r.ok
                      THEN ResolveFrom([acc EXCEPT !.store = r.store,
                                                   !.stored = Append(@, Len(r.store))],
                                       userId, insights, k + 1, t, fail)
                      ELSE [acc EXCEPT !.threw = TRUE]

Resolve(st, userId, msg, emotion, t, fail) ==
    ResolveFrom([store |-> st, stored |-> <<>>, merged |-> <<>>, threw |-> FALSE],
                userId, InsightsOf[msg][emotion], 1, t, fail)

\* a faulty variant: the catch block rethrows instead of returning []
ProcessConversationRethrow(st, userId, msg, emotion, t, fail) ==
    LET r == Resolve(st, userId, msg, emotion, t, fail)
    IN  [store |-> r.store, returned |-> IF r.threw THEN <<>> ELSE r.stored,
         merged |-> r.merged, error |-> r.threw]

\* processConversationForMemories(userId, message, context):
\* [store, returned, merged, error]; the catch block turns every exception into
\* the return value [], so error (an exception reaching the caller) is FALSE
ProcessConversationForMemories(st, userId, msg, emotion, t, fail) ==
    LET r == Resolve(st, userId, msg, emotion, t, fail)
    IN  [store |-> r.store, returned |-> IF r.threw THEN <<>> ELSE r.stored,
         merged |-> r.merged, error |-> FALSE]

-----------------------------------------------------------------------------
(* memoryService.getRelevantMemories                                       *)

MaxMemoriesPerQuery == 10

\* a context: [emotion, topics, conversationType], None / {} when absent
Context(e, tp, ct) == [emotion |-> e, topics |-> tp, conversationType |-> ct]
EmptyContext == Context(None, {}, None)

\* the query object built from userId and context
RelevantQuery(st, i, userId, ctx) ==
    /\ st[i].userId = userId
    /\ st[i].isActive
    /\ (ctx.emotion # None =>
            \/ st[i].userEmotionWhenShared = ctx.emotion
            \/ ctx.emotion \in st[i].tags)
    /\ (ctx.topics # {} => st[i].tags \cap ctx.topics # {})
    /\ (ctx.conversationType # None => ctx.conversationType \in st[i].relevantContexts)

\* .sort({importance: -1, lastAccessed: -1, effectiveness: -1}): i may come
\* before j
SortsBefore(st, i, j) ==
    \/ st[i].importance > st[j].importance
    \/ /\ st[i].importance = st[j].importance
       /\ \/ st[i].lastAccessed > st[j].lastAccessed
          \/ /\ st[i].lastAccessed = st[j].lastAccessed
             /\ st[i].effectiveness >= st[j].effectiveness

RECURSIVE SortedOrders(_, _)
\* every order of the documents S that the sort allows (documents equal on all
\* three keys come in an order the database does not fix)
SortedOrders(st, S) ==
    IF S = {} THEN {<<>>}
    ELSE UNION {{<<m>> \o r : r \in SortedOrders(st, S \ {m})} :
                    m \in {x \in S : \A y \in S : SortsBefore(st, x, y)}}

Min2(a, b) == IF a <= b THEN a ELSE b

\* Memory.find(query).sort(...).limit(maxMemoriesPerQuery): the possible results
FindRelevant(st, userId, ctx) ==
    LET S == {i \in Present(st) : RelevantQuery(st, i, userId, ctx)}
    IN  {SubSeq(o, 1, Min2(Len(o), MaxMemoriesPerQuery)) : o \in SortedOrders(st, S)}

Range(f) == {f[i] : i \in DOMAIN f}

\* a faulty variant: recordAccess that leaves accessCount alone
RecordAccessNoCount(doc, t) ==
    [doc EXCEPT !.lastAccessed = t, !.updatedAt = t]

\* memory.recordAccess() with no argument, then save()
RecordAccess(doc, t) ==
    [doc EXCEPT !.accessCount = @ + 1, !.lastAccessed = t, !.updatedAt = t]

\* the store after recordAccess() of every document of the result
Touch(st, result, t) ==
    [i \in Ids(st) |-> IF i \in Range(result) THEN RecordAccess(st[i], t) ELSE st[i]]

\* getRelevantMemories(userId, context) with the query result `found`:
\* [store, returned]; a failing find or a failing save ends in the catch block,
\* which returns []
GetRelevantMemories(st, found, t, fail) ==
    IF "find" \in fail \/ "recordAccess" \in fail
    THEN [store |-> st, returned |-> <<>>, error |-> FALSE]
    ELSE [store |-> Touch(st, found, t), returned |-> found, error |-> FALSE]

-----------------------------------------------------------------------------
(* The virtual relevanceScore of models/Memory.js.  No query of the        *)
(* repository sorts by it.                                                 *)

\* memorySchema.methods.getRecencyScore at time t (0..10)
GetRecencyScore(doc, t) ==
    LET daysSinceAccess == t - doc.lastAccessed
    IN  IF daysSinceAccess < 1 THEN 10
        ELSE IF daysSinceAccess < 7 THEN 8
        ELSE IF daysSinceAccess < 30 THEN 6
        ELSE IF daysSinceAccess < 90 THEN 4
        ELSE IF daysSinceAccess < 365 THEN 2
        ELSE 1

\* relevanceScore, times 1000: (importance * 0.4 + recency * 0.3 + usage * 0.2
\* + effectiveness * 0.1) / 10 with usage = min(accessCount, 10) / 10
RelevanceScore(doc, t) ==
    40 * doc.importance + 30 * GetRecencyScore(doc, t)
        + 2 * Min2(doc.accessCount, 10) + doc.effectiveness

-----------------------------------------------------------------------------
(* Memory.createFakeMemory and memoryService.createFakeMemory               *)

FakeMemories(tone) ==
    CASE tone = "encouraging" ->
           {"You've overcome challenges before, and I remember how resilient you were",
            "I remember you talking about your inner strength during difficult times",
            "You once mentioned how you inspire others without even realizing it"}
      [] tone = "empathetic" ->
           {"I remember you sharing how you felt during a similar situation",
            "You once opened up about feeling this way before",
            "I recall you mentioning how important it is to feel heard and understood"}
      [] OTHER ->
           {"I remember you mentioning how proud your family was when you achieved something important",
            "You once told me about a time when someone really believed in you",
            "I recall you sharing about a moment when you felt truly understood"}

\* the document Memory.createFakeMemory builds; usage takes the schema defaults
FakeMemory(userId, tone, content, t) ==
    [userId |-> userId, type |-> "fake_memory", content |-> content,
     importance |-> 7, sentiment |-> 5,
     tags |-> {tone, "generated", "supportive"}, source |-> "generated",
     userEmotionWhenShared |-> None, relevantContexts |-> {},
     accessCount |-> 0, lastAccessed |-> t, effectiveness |-> 5,
     isActive |-> TRUE, deleted |-> FALSE, updatedAt |-> t]

\* memoryService.createFakeMemory: the store after it; a failing save is caught
CreateFakeMemory(st, userId, tone, content, t, fail) ==
    IF "fake" \in fail \/ ~SchemaValid(FakeMemory(userId, tone, content, t)) THEN st
    ELSE Append(st, FakeMemory(userId, tone, content, t))

\* routes/chat.js determineEmotionalTone(userEmotion, trustLevel)
DetermineEmotionalTone(emotion, trustLevel) ==
    CASE emotion = "sad" -> IF trustLevel > 70 THEN "empathetic" ELSE "supportive"
      [] emotion = "anxious" -> "gentle"
      [] emotion = "angry" -> "supportive"
      [] emotion = "frustrated" -> "empathetic"
      [] emotion = "excited" -> "encouraging"
      [] emotion = "happy" -> "playful"
      [] OTHER -> "supportive"

-----------------------------------------------------------------------------
(* Inputs.                                                                 *)

Owners == {"u1", "u2"}

\* the store operations that can fail during one call
FailPoints == {"findSimilar", "update", "store", "find", "recordAccess", "fake"}
NoFail == {}

NoLast ==
    [op |-> "none", owner |-> None, msg |-> "", ctx |-> EmptyContext, fail |-> NoFail,
     status |-> 0, stored |-> <<>>, merged |-> <<>>, returned |-> <<>>, target |-> 0,
     input |-> [importance |-> 0, sentiment |-> 0], session |-> None,
     insights |-> <<>>]

ActiveOf(st, u) == {i \in Present(st) : st[i].userId = u /\ st[i].isActive}

-----------------------------------------------------------------------------
(* The operations, one action per call or request handler.                 *)

\* recordTurn: memoryService.processConversationForMemories(userId, message,
\* {emotion}) called on its own
RecordTurn(u, msg, emo, fail) ==
    LET r == ProcessConversationForMemories(store, u, msg, emo, now, fail)
    IN  /\ store' = r.store
        /\ last' = [NoLast EXCEPT !.op = "recordTurn", !.owner = u, !.msg = msg,
                                  !.ctx = Context(emo, {}, None), !.fail = fail,
                                  !.status = IF r.error THEN 500 ELSE 200,
                                  !.stored = r.returned, !.merged = r.merged]
        /\ UNCHANGED <<now, trust, msgs>>

\* retrieveContext: memoryService.getRelevantMemories(userId, context) called
\* on its own
RetrieveContext(u, ctx, fail) ==
    \E found \in FindRelevant(store, u, ctx) :
        LET r == GetRelevantMemories(store, found, now, fail)
        IN  /\ store' = r.store
            /\ last' = [NoLast EXCEPT !.op = "retrieveContext", !.owner = u, !.ctx = ctx,
                                      !.fail = fail, !.status = 200,
                                      !.returned = r.returned]
            /\ UNCHANGED <<now, trust, msgs>>

\* GET /api/memory/:userId/relevant with the query parameters of ctx and
\* limit: getRelevantMemories runs in full, then the handler hands back
\* memories.slice(0, limit); last.target records the limit
GetRelevant(u, ctx, limit) ==
    \E found \in FindRelevant(store, u, ctx) :
        LET r == GetRelevantMemories(store, found, now, NoFail)
        IN  /\ store' = r.store
            /\ last' = [NoLast EXCEPT !.op = "relevant", !.owner = u, !.ctx = ctx,
                                      !.status = 200, !.target = limit,
                                      !.returned = SubSeq(r.returned, 1,
                                                          Min2(limit, Len(r.returned)))]
            /\ UNCHANGED <<now, trust, msgs>>

\* memoryService.extractInsights(message, {emotion}) called on its own: it
\* reads its arguments and returns the insights
Extract(msg, emo) ==
    /\ last' = [NoLast EXCEPT !.op = "extract", !.msg = msg,
                              !.ctx = Context(emo, {}, None),
                              !.insights = InsightsOf[msg][emo]]
    /\ UNCHANGED <<store, now, trust, msgs>>

\* time passes
Tick(d) ==
    /\ now' = now + d
    /\ UNCHANGED <<store, trust, msgs, last>>

\* user.relationships.trustLevel of the user the handler found or created
\* (new User: trustLevel 5); trust[u] < 0 says that u has no User document
TrustLevelOf(u) == IF trust[u] < 0 THEN 50 ELSE trust[u]

\* POST /api/chat/message after the ranking call, gr being its outcome: the
\* message with memoryTriggered is saved, the trust level moves, a fake memory
\* is created when trustLevel > 7 and Math.random() > 0.7 (rnd), and the
\* response is sent
ChatRespond(u, s, msg, fail, rnd, ctx, pr, gr, trustLevel, tone) ==
    /\ IF trustLevel > 70 /\ rnd
       THEN \E content \in FakeMemories(tone) :
                store' = CreateFakeMemory(gr.store, u, tone, content, now, fail)
       ELSE store' = gr.store
    /\ trust' = [trust EXCEPT ![u] = trustLevel]
    /\ msgs' = msgs \cup {[userId |-> u, sessionId |-> s,
                             memoryTriggered |-> gr.returned]}
    /\ last' = [NoLast EXCEPT !.op = "chat", !.owner = u, !.session = s, !.msg = msg,
                              !.ctx = ctx, !.fail = fail, !.status = 200,
                              !.stored = pr.returned, !.merged = pr.merged,
                              !.returned = gr.returned]
    /\ now' = now

\* POST /api/chat/message after processConversationForMemories, pr being its
\* outcome and ctx the context handed to getRelevantMemories.  An exception
\* out of the memory service would end in the handler's catch block (500).
ChatRetrieve(u, s, msg, fail, rnd, emotion, ctx, pr) ==
    IF pr.error
    THEN /\ store' = pr.store
         /\ last' = [NoLast EXCEPT !.op = "chat", !.owner = u, !.session = s, !.msg = msg,
                                   !.ctx = ctx, !.fail = fail, !.status = 500]
         /\ trust' = [trust EXCEPT ![u] = TrustLevelOf(u)]
         /\ UNCHANGED <<now, msgs>>
    ELSE \E found \in FindRelevant(pr.store, u, ctx) :
            ChatRespond(u, s, msg, fail, rnd, ctx, pr,
                        GetRelevantMemories(pr.store, found, now, fail),
                        IF SentimentOf[msg].above THEN Min2(100, TrustLevelOf(u) + 1)
                        ELSE TrustLevelOf(u),
                        DetermineEmotionalTone(emotion, TrustLevelOf(u)))

\* the context of the ranking call: the emotion, the conversationType of the
\* conversation ('casual', or 'onboarding' for a new user: a non-empty string
\* either way, and no memory lists either in relevantContexts), and the tags
\* of the extracted memories as topics
ChatContext(emotion, pr) ==
    Context(emotion, UNION {pr.store[i].tags : i \in Range(pr.returned)}, "casual")

\* POST /api/chat/message after the sentiment analysis
ChatExtract(u, s, msg, fail, rnd, emotion, pr) ==
    ChatRetrieve(u, s, msg, fail, rnd, emotion, ChatContext(emotion, pr), pr)

\* POST /api/chat/message with sessionId s.  pastOnboarding: the request says
\* onboardingComplete or the user's profile is complete; rnd: Math.random() >
\* 0.7.  The session selects the conversation the messages are saved to; the
\* calls of the memory service get userId and no session.
ChatMessage(u, s, msg, pastOnboarding, fail, rnd) ==
    IF ~pastOnboarding
    THEN /\ last' = [NoLast EXCEPT !.op = "onboarding", !.owner = u, !.session = s,
                                   !.msg = msg, !.status = 200]
         /\ trust' = [trust EXCEPT ![u] = TrustLevelOf(u)]
         /\ UNCHANGED <<store, now, msgs>>
    ELSE ChatExtract(u, s, msg, fail, rnd, SentimentOf[msg].emotion,
                     ProcessConversationForMemories(store, u, msg,
                                                    SentimentOf[msg].emotion, now, fail))

\* a faulty variant: a type validator that lets every type of the schema pass
ManualTypesOfSchema == MemoryTypes

\* the type validator of POST /api/memory/:userId
ManualTypes == MemoryTypes \ {"fake_memory"}

\* POST /api/memory/:userId with body {type, content, importance, sentiment, tags}
ManualCreate(u, body) ==
    LET bad == \/ body.type \notin ManualTypes
               \/ body.content = ""
               \/ body.importance < 1 \/ body.importance > 10
        r == StoreMemory(store, u, [type |-> body.type, content |-> body.content,
                                    importance |-> body.importance,
                                    sentiment |-> body.sentiment, tags |-> body.tags,
                                    source |-> "explicit"], now)
    IN  /\ store' = IF bad THEN store ELSE r.store
        /\ last' = [NoLast EXCEPT !.op = "create", !.owner = u, !.msg = body.content,
                                  !.status = IF bad THEN 400 ELSE IF r.ok THEN 201 ELSE 500,
                                  !.stored = IF ~bad /\ r.ok THEN <<Len(r.store)>> ELSE <<>>,
                                  !.input = [importance |-> body.importance,
                                             sentiment |-> body.sentiment]]
        /\ UNCHANGED <<now, trust, msgs>>

\* a faulty variant: an update that also sets isActive
ManualUpdateReactivating(id, body) ==
    LET bad == body.importance # 0 /\ (body.importance < 1 \/ body.importance > 10)
        doc == [store[id] EXCEPT !.content = IF body.content # None THEN body.content ELSE @,
                                 !.importance = IF body.importance # 0 THEN body.importance
                                                ELSE @,
                                 !.isActive = TRUE,
                                 !.updatedAt = now]
        status == IF bad THEN 400
                  ELSE IF id \notin Present(store) THEN 404
                  ELSE IF SchemaValid(doc) THEN 200 ELSE 500
    IN  /\ store' = IF status = 200 THEN [store EXCEPT ![id] = doc] ELSE store
        /\ last' = [NoLast EXCEPT !.op = "update", !.status = status, !.target = id,
                                  !.input = [importance |-> body.importance,
                                             sentiment |-> body.sentiment]]
        /\ UNCHANGED <<now, trust, msgs>>

\* PUT /api/memory/:memoryId with the given body; None and 0 stand for an
\* absent content and importance.  The handler reads content, importance, tags
\* and category of the body and nothing else: a sentiment in it is ignored.
ManualUpdate(id, body) ==
    LET bad == body.importance # 0 /\ (body.importance < 1 \/ body.importance > 10)
        doc == [store[id] EXCEPT !.content = IF body.content # None THEN body.content ELSE @,
                                 !.importance = IF body.importance # 0 THEN body.importance
                                                ELSE @,
                                 !.updatedAt = now]
        status == IF bad THEN 400
                  ELSE IF id \notin Present(store) THEN 404
                  ELSE IF SchemaValid(doc) THEN 200 ELSE 500
    IN  /\ store' = IF status = 200 THEN [store EXCEPT ![id] = doc] ELSE store
        /\ last' = [NoLast EXCEPT !.op = "update", !.status = status, !.target = id,
                                  !.input = [importance |-> body.importance,
                                             sentiment |-> body.sentiment]]
        /\ UNCHANGED <<now, trust, msgs>>

\* DELETE /api/memory/:memoryId
DeleteMemory(id) ==
    LET found == id \in Present(store)
    IN  /\ store' = IF found
                    THEN [store EXCEPT ![id] = [@ EXCEPT !.isActive = FALSE,
                                                         !.updatedAt = now]]
                    ELSE store
        /\ last' = [NoLast EXCEPT !.op = "delete", !.status = IF found THEN 200 ELSE 404,
                                  !.target = id]
        /\ UNCHANGED <<now, trust, msgs>>

DaysPerYear == 365

\* a faulty variant: the updateMany filter without its effectiveness condition
SoftDeleteQueryNoEffectiveness(st, i, u, cutoff) ==
    /\ st[i].userId = u
    /\ st[i].importance < 3
    /\ st[i].lastAccessed < cutoff

\* the filter of Memory.updateMany in cleanupMemories
SoftDeleteQuery(st, i, u, cutoff) ==
    /\ st[i].userId = u
    /\ st[i].importance < 3
    /\ st[i].lastAccessed < cutoff
    /\ st[i].effectiveness < 3

\* a faulty variant: the deleteMany filter without its accessCount condition
HardDeleteQueryNoCount(st, i, u, cutoff) ==
    /\ st[i].userId = u
    /\ st[i].type = "fake_memory"
    /\ st[i].lastAccessed < cutoff

\* the filter of Memory.deleteMany in cleanupMemories
HardDeleteQuery(st, i, u, cutoff) ==
    /\ st[i].userId = u
    /\ st[i].type = "fake_memory"
    /\ st[i].lastAccessed < cutoff
    /\ st[i].accessCount < 2

\* memoryService.cleanupMemories(userId), reached by POST /api/memory/:userId/cleanup;
\* updateMany sets isActive only (update queries leave the timestamps of
\* matched documents to $set, which mongoose extends by updatedAt)
CleanupMemories(st, u, t) ==
    LET cutoff == t - DaysPerYear
        st1 == [i \in Ids(st) |->
                  IF i \in Present(st) /\ SoftDeleteQuery(st, i, u, cutoff)
                  THEN [st[i] EXCEPT !.isActive = FALSE, !.updatedAt = t]
                  ELSE st[i]]
    IN  [i \in Ids(st) |->
           IF i \in Present(st1) /\ HardDeleteQuery(st1, i, u, cutoff)
           THEN [st1[i] EXCEPT !.deleted = TRUE] ELSE st1[i]]

Cleanup(u) ==
    /\ store' = CleanupMemories(store, u, now)
    /\ last' = [NoLast EXCEPT !.op = "cleanup", !.owner = u, !.status = 200]
    /\ UNCHANGED <<now, trust, msgs>>

\* DELETE /api/user/profile/:userId: User.findOneAndDelete, then
\* Conversation.deleteMany({userId}) and Memory.deleteMany({userId})
DeleteProfile(u) ==
    LET found == trust[u] >= 0
    IN  /\ store' = IF found
                    THEN [i \in Ids(store) |->
                            IF store[i].userId = u THEN [store[i] EXCEPT !.deleted = TRUE]
                            ELSE store[i]]
                    ELSE store
        /\ msgs' = IF found THEN {m \in msgs : m.userId # u} ELSE msgs
        /\ trust' = [trust EXCEPT ![u] = -1]
        /\ last' = [NoLast EXCEPT !.op = "deleteProfile", !.owner = u,
                                  !.status = IF found THEN 200 ELSE 404]
        /\ now' = now

FeedbackKinds == {"helpful", "not_helpful", "inappropriate", "perfect"}

\* the effectiveness the handler derives from the feedback, in tenths
FeedbackSignal(feedback) ==
    CASE feedback = "perfect" -> 10
      [] feedback = "helpful" -> 8
      [] feedback = "not_helpful" -> 3
      [] OTHER -> 1

\* POST /api/chat/feedback on the assistant message m: the handler calls
\* memoryService.updateMemoryEffectiveness for every id of memoryTriggered; the
\* service has no such method, so a non-empty list ends in the catch block
Feedback(m, feedback) ==
    /\ last' = [NoLast EXCEPT !.op = "feedback", !.owner = m.userId, !.msg = feedback,
                              !.status = IF m.memoryTriggered # <<>> THEN 500 ELSE 200,
                              !.returned = m.memoryTriggered]
    /\ UNCHANGED <<store, now, trust, msgs>>

-----------------------------------------------------------------------------
(* The sequential specification: every call and request runs to completion *)
(* before the next one starts.                                             *)

Body(t, c, imp, sen, tg) ==
    [type |-> t, content |-> c, importance |-> imp, sentiment |-> sen, tags |-> tg]

ManualBodies ==
    {Body("personal_fact", "25", 1, 0, {}),
     Body("preference", "jazz music", 5, 50, {"music"}),
     Body("goal", "run", 11, 0, {}),
     Body("fake_memory", "made up", 5, 0, {})}

UpdateBodies ==
    {[content |-> "30", importance |-> 0, sentiment |-> 0],
     [content |-> None, importance |-> 2, sentiment |-> 0],
     [content |-> None, importance |-> 11, sentiment |-> 0],
     [content |-> "30", importance |-> 0, sentiment |-> 50]}

Contexts == {EmptyContext, Context("sad", {}, None), Context(None, {"music"}, None),
             Context(None, {}, "casual")}

TickDays == {1, 400}

Init ==
    /\ store = <<>>
    /\ now = 0
    /\ trust = [u \in Owners |-> IF u = "u1" THEN 70 ELSE 50]
    /\ msgs = {}
    /\ last = NoLast
    /\ nops = 0
    /\ reqs = <<>>
    /\ unrelated = [u \in Owners |-> -1]

Step(A) == nops < MaxOps /\ A /\ nops' = nops + 1 /\ UNCHANGED <<reqs, unrelated>>

Next ==
    \/ \E u \in Owners, msg \in Utterances, emo \in TurnEmotions :
            Step(RecordTurn(u, msg, emo, NoFail))
    \/ \E u \in Owners, ctx \in Contexts : Step(RetrieveContext(u, ctx, NoFail))
    \/ \E u \in Owners, body \in ManualBodies : Step(ManualCreate(u, body))
    \/ \E id \in 1..(Len(store) + 1), b \in UpdateBodies :
            Step(ManualUpdate(id, b))
    \/ \E id \in 1..(Len(store) + 1) : Step(DeleteMemory(id))
    \/ \E u \in Owners : Step(Cleanup(u))
    \/ \E d \in TickDays : Step(Tick(d))
    \/ \E u \in Owners, msg \in ChatUtterances, onb \in BOOLEAN, rnd \in BOOLEAN :
            Step(ChatMessage(u, "s1", msg, onb, NoFail, rnd))
    \/ \E m \in msgs, fb \in FeedbackKinds : Step(Feedback(m, fb))
    \/ \E u \in Owners : Step(DeleteProfile(u))

Spec == Init /\ [][Next]_vars

-----------------------------------------------------------------------------
(* The turn specification: recordTurn and retrieveContext alone, over the  *)
(* larger set of utterances.                                               *)

NextTurns ==
    \/ \E u \in Owners, msg \in TurnUtterances, emo \in TurnEmotions :
            Step(RecordTurn(u, msg, emo, NoFail))
    \/ \E u \in Owners, ctx \in Contexts : Step(RetrieveContext(u, ctx, NoFail))
    \/ \E d \in TickDays : Step(Tick(d))

SpecTurns == Init /\ [][NextTurns]_vars

-----------------------------------------------------------------------------
(* The chat specification: POST /api/chat/message with failures of the     *)
(* memory store injected, and POST /api/chat/feedback.                     *)

\* the store operations that fail during one request: none, one, or all
FailSets == {NoFail, FailPoints} \cup {{f} : f \in FailPoints}

NextChat ==
    \/ \E u \in Owners, msg \in ChatUtterances, pastOnboarding \in BOOLEAN,
          fail \in FailSets, rnd \in BOOLEAN :
            Step(ChatMessage(u, "s1", msg, pastOnboarding, fail, rnd))
    \/ \E m \in msgs, feedback \in FeedbackKinds : Step(Feedback(m, feedback))
    \/ \E d \in TickDays : Step(Tick(d))

SpecChat == Init /\ [][NextChat]_vars

-----------------------------------------------------------------------------
(* The recall specification: an owner states the two facts, sends the      *)
(* filler turns, and the context is retrieved.  unrelated[u] counts the    *)
(* turns of u after the statement (-1: not stated yet).                    *)

RecallFillers == {UFiller, ULove}

SendFacts(u) ==
    /\ unrelated[u] = -1
    /\ RecordTurn(u, UBlue, None, NoFail)
    /\ unrelated' = [unrelated EXCEPT ![u] = 0]
    /\ UNCHANGED <<nops, reqs>>

SendFiller(u, msg) ==
    /\ unrelated[u] >= 0 /\ unrelated[u] < FillerTurns
    /\ RecordTurn(u, msg, None, NoFail)
    /\ unrelated' = [unrelated EXCEPT ![u] = @ + 1]
    /\ UNCHANGED <<nops, reqs>>

Recall(u) ==
    /\ nops < MaxOps
    /\ RetrieveContext(u, EmptyContext, NoFail)
    /\ nops' = nops + 1
    /\ UNCHANGED <<reqs, unrelated>>

NextRecall ==
    \/ \E u \in Owners : SendFacts(u)
    \/ \E u \in Owners, msg \in RecallFillers : SendFiller(u, msg)
    \/ \E u \in Owners : Recall(u)

SpecRecall == Init /\ [][NextRecall]_vars

-----------------------------------------------------------------------------
(* The concurrent specification.  Node runs the code between two awaits    *)
(* atomically and MongoDB runs one operation on one document atomically,   *)
(* so a request in flight advances by one store operation per step.        *)
(* reqs holds the requests; pc names the store operation a request awaits. *)

ConcUtterances == {U25}

Req(kind, u, msg, pc) ==
    [kind |-> kind, owner |-> u, msg |-> msg, pc |-> pc, k |-> 1, hit |-> 0,
     t |-> 0, snap |-> <<>>, pending |-> {}]

\* what a loaded document keeps of the stored one
Loaded(st, i) ==
    [id |-> i, accessCount |-> st[i].accessCount, importance |-> st[i].importance]

InsightsOfReq(r) == InsightsOf[reqs[r].msg][None]

\* the for loop of processConversationForMemories moves to the next insight
NextInsight(r) ==
    [reqs[r] EXCEPT !.k = @ + 1,
                    !.pc = IF reqs[r].k + 1 > Len(InsightsOfReq(r)) THEN "done" ELSE "find"]

\* a request of processConversationForMemories arrives
StartTurn(u, msg) ==
    /\ Len(reqs) < MaxReqs
    /\ reqs' = Append(reqs, Req("turn", u, msg,
                                IF InsightsOf[msg][None] = <<>> THEN "done" ELSE "find"))
    /\ UNCHANGED <<store, now, trust, msgs, last, nops, unrelated>>

\* await this.findSimilarMemory(userId, insight)
TurnFind(r) ==
    /\ reqs[r].kind = "turn" /\ reqs[r].pc = "find"
    /\ LET hit == FindSimilarMemory(store, reqs[r].owner, InsightsOfReq(r)[reqs[r].k])
       IN  reqs' = [reqs EXCEPT ![r].hit = hit,
                                ![r].pc = IF hit = 0 THEN "store" ELSE "load"]
    /\ UNCHANGED <<store, now, trust, msgs, last, nops, unrelated>>

\* await this.storeMemory(userId, memoryData)
TurnStore(r) ==
    /\ reqs[r].kind = "turn" /\ reqs[r].pc = "store"
    /\ LET s == StoreMemory(store, reqs[r].owner,
                            InsightData(InsightsOfReq(r)[reqs[r].k]), now)
       IN  /\ store' = s.store
           /\ reqs' = [reqs EXCEPT ![r] = IF s.ok THEN NextInsight(r)
                                          ELSE [reqs[r] EXCEPT !.pc = "done"]]
    /\ UNCHANGED <<now, trust, msgs, last, nops, unrelated>>

\* updateMemory: await Memory.findById(memoryId), then the assignments to the
\* loaded document
TurnLoad(r) ==
    /\ reqs[r].kind = "turn" /\ reqs[r].pc = "load"
    /\ reqs' = [reqs EXCEPT ![r] =
                  IF reqs[r].hit \in Present(store)
                  THEN [reqs[r] EXCEPT !.snap = <<Loaded(store, reqs[r].hit)>>,
                                       !.t = now, !.pc = "save"]
                  ELSE NextInsight(r)]
    /\ UNCHANGED <<store, now, trust, msgs, last, nops, unrelated>>

\* updateMemory: await memory.save(), which writes the paths assigned
TurnSave(r) ==
    /\ reqs[r].kind = "turn" /\ reqs[r].pc = "save"
    /\ LET insight == InsightsOfReq(r)[reqs[r].k]
           i == reqs[r].hit
       IN  store' = IF i \in Present(store)
                    THEN [store EXCEPT ![i].content = insight.content,
                                       ![i].importance =
                                           Max2(reqs[r].snap[1].importance,
                                                insight.importance),
                                       ![i].lastAccessed = reqs[r].t,
                                       ![i].updatedAt = now]
                    ELSE store
    /\ reqs' = [reqs EXCEPT ![r] = NextInsight(r)]
    /\ UNCHANGED <<now, trust, msgs, last, nops, unrelated>>

\* a request of getRelevantMemories arrives
StartRank(u) ==
    /\ Len(reqs) < MaxReqs
    /\ reqs' = Append(reqs, Req("rank", u, "", "find"))
    /\ UNCHANGED <<store, now, trust, msgs, last, nops, unrelated>>

\* await Memory.find(query).sort(...).limit(...), then memories.map(memory =>
\* memory.recordAccess()): every loaded document gets its count and its date
RankFind(r) ==
    /\ reqs[r].kind = "rank" /\ reqs[r].pc = "find"
    /\ \E found \in FindRelevant(store, reqs[r].owner, EmptyContext) :
          reqs' = [reqs EXCEPT ![r].snap = [j \in DOMAIN found |-> Loaded(store, found[j])],
                               ![r].pending = Range(found),
                               ![r].t = now,
                               ![r].pc = IF found = <<>> THEN "done" ELSE "save"]
    /\ UNCHANGED <<store, now, trust, msgs, last, nops, unrelated>>

\* one this.save() of recordAccess reaches the store
RankSave(r, i) ==
    /\ reqs[r].kind = "rank" /\ reqs[r].pc = "save" /\ i \in reqs[r].pending
    /\ LET doc == CHOOSE d \in Range(reqs[r].snap) : d.id = i
       IN  store' = IF i \in Present(store)
                    THEN [store EXCEPT ![i].accessCount = doc.accessCount + 1,
                                       ![i].lastAccessed = reqs[r].t,
                                       ![i].updatedAt = now]
                    ELSE store
    /\ reqs' = [reqs EXCEPT ![r].pending = @ \ {i},
                            ![r].pc = IF reqs[r].pending = {i} THEN "done" ELSE "save"]
    /\ UNCHANGED <<now, trust, msgs, last, nops, unrelated>>

\* a day passes
ClockTick ==
    /\ now < MaxNow
    /\ now' = now + 1
    /\ UNCHANGED <<store, trust, msgs, last, nops, reqs, unrelated>>

NextConc ==
    \/ \E u \in Owners, msg \in ConcUtterances : StartTurn(u, msg)
    \/ \E r \in DOMAIN reqs : TurnFind(r)
    \/ \E r \in DOMAIN reqs : TurnStore(r)
    \/ \E r \in DOMAIN reqs : TurnLoad(r)
    \/ \E r \in DOMAIN reqs : TurnSave(r)
    \/ \E u \in Owners : StartRank(u)
    \/ \E r \in DOMAIN reqs : RankFind(r)
    \/ \E r \in DOMAIN reqs, i \in Ids(store) : RankSave(r, i)
    \/ ClockTick

SpecConc == Init /\ [][NextConc]_vars

-----------------------------------------------------------------------------
(* The sweep specification: cleanupMemories as a function of the           *)
(* collection.  The collection starts with schema-valid documents whose    *)
(* importance, effectiveness, staleness and access count lie on both sides *)
(* of the thresholds of the two filters, at day 400.                       *)

\* a stored document of the given owner, type and scores
SweepDoc(u, type, imp, eff, accessed, count) ==
    [NewMemory(u, [type |-> type, content |-> "x", importance |-> imp, sentiment |-> 0,
                   tags |-> {}, source |-> "explicit"], accessed)
        EXCEPT !.effectiveness = eff, !.accessCount = count]

SweepDocs ==
    {SweepDoc(u, "personal_fact", s[1], s[2], accessed, 0) :
        u \in Owners, s \in {<<1, 1>>, <<9, 1>>, <<1, 5>>}, accessed \in {0, 35}}
    \cup {SweepDoc(u, "fake_memory", 7, 5, accessed, count) :
        u \in Owners, accessed \in {0, 35}, count \in {0, 2}}

InitSweep ==
    /\ \E n \in 0..MaxSweepDocs : store \in [1..n -> SweepDocs]
    /\ now = 400
    /\ trust = [u \in Owners |-> 50]
    /\ msgs = {}
    /\ last = NoLast
    /\ nops = 0
    /\ reqs = <<>>
    /\ unrelated = [u \in Owners |-> -1]

NextSweep ==
    \/ \E u \in Owners : Step(Cleanup(u))
    \/ \E d \in TickDays : Step(Tick(d))

SpecSweep == InitSweep /\ [][NextSweep]_vars

-----------------------------------------------------------------------------
(* The ranking specification: turns that create memories of equal and of   *)
(* different importance, the passing of time, and ranking calls.           *)

RankUtterances == {U25, U30, ULove}

StepRank(A) == nops < MaxRankOps /\ A /\ nops' = nops + 1 /\ UNCHANGED <<reqs, unrelated>>

NextRank ==
    \/ \E u \in Owners, msg \in RankUtterances : StepRank(RecordTurn(u, msg, None, NoFail))
    \/ \E u \in Owners, ctx \in Contexts : StepRank(RetrieveContext(u, ctx, NoFail))
    \/ \E d \in TickDays : StepRank(Tick(d))

SpecRank == Init /\ [][NextRank]_vars

-----------------------------------------------------------------------------
(* The feedback specification: POST /api/chat/feedback as a function of    *)
(* the stored conversation.  The chat handler itself never saves a message *)
(* with a non-empty memoryTriggered (its ranking call returns no memory),  *)
(* so the conversation starts with assistant messages that list none, one  *)
(* and two of the owner's memories.                                        *)

InitFeedback ==
    /\ store = ProcessConversationForMemories(
                   ProcessConversationForMemories(<<>>, "u1", U25, None, 0, NoFail).store,
                   "u1", ULove, None, 0, NoFail).store
    /\ now = 0
    /\ trust = [u \in Owners |-> 50]
    /\ msgs = {[userId |-> "u1", sessionId |-> "s1", memoryTriggered |-> t] :
                  t \in {<<>>, <<1>>, <<1, 2>>}}
    /\ last = NoLast
    /\ nops = 0
    /\ reqs = <<>>
    /\ unrelated = [u \in Owners |-> -1]

NextFeedback ==
    \/ \E m \in msgs, feedback \in FeedbackKinds : Step(Feedback(m, feedback))
    \/ \E u \in Owners, ctx \in Contexts : Step(RetrieveContext(u, ctx, NoFail))
    \/ \E d \in TickDays : Step(Tick(d))

SpecFeedback == InitFeedback /\ [][NextFeedback]_vars

-----------------------------------------------------------------------------
(* The failure specification: processConversationForMemories and           *)
(* getRelevantMemories called on their own while operations of the backing *)
(* store fail.                                                             *)

NextFail ==
    \/ \E u \in Owners, msg \in Utterances, emo \in TurnEmotions, fail \in FailSets :
            Step(RecordTurn(u, msg, emo, fail))
    \/ \E u \in Owners, ctx \in Contexts, fail \in FailSets :
            Step(RetrieveContext(u, ctx, fail))
    \/ \E d \in TickDays : Step(Tick(d))

SpecFail == Init /\ [][NextFail]_vars

-----------------------------------------------------------------------------
(* The session specification: chat turns of the owners in two sessions,    *)
(* and ranking calls outside a turn.                                       *)

Sessions == {"s1", "s2"}

NextSessions ==
    \/ \E u \in Owners, s \in Sessions, msg \in ChatUtterances, rnd \in BOOLEAN :
            Step(ChatMessage(u, s, msg, TRUE, NoFail, rnd))
    \/ \E u \in Owners, ctx \in Contexts : Step(RetrieveContext(u, ctx, NoFail))
    \/ \E d \in TickDays : Step(Tick(d))

SpecSessions == Init /\ [][NextSessions]_vars

-----------------------------------------------------------------------------
(* The extraction specification: extractInsights on every utterance and    *)
(* emotion of the model, between turns that fill the store.                *)

NextExtract ==
    \/ \E msg \in AllUtterances, emo \in AllEmotions : Step(Extract(msg, emo))
    \/ \E u \in Owners, msg \in Utterances : Step(RecordTurn(u, msg, None, NoFail))
    \/ \E d \in TickDays : Step(Tick(d))

SpecExtract == Init /\ [][NextExtract]_vars

-----------------------------------------------------------------------------
(* The kinds specification: turns whose utterances and emotions yield      *)
(* candidates of one type with different contents.                         *)

KindUtterances == {U25, ULove, UBlue}
KindEmotions == {None, "sad", "positive"}

NextKinds ==
    \/ \E u \in Owners, msg \in KindUtterances, emo \in KindEmotions :
            Step(RecordTurn(u, msg, emo, NoFail))
    \/ \E u \in Owners, ctx \in Contexts : Step(RetrieveContext(u, ctx, NoFail))
    \/ \E d \in TickDays : Step(Tick(d))

SpecKinds == Init /\ [][NextKinds]_vars

-----------------------------------------------------------------------------
(* The limit specification: GET /api/memory/:userId/relevant with limits   *)
(* below and at the default, on the memories that turns created.           *)

Limits == {1, 10}

NextLimit ==
    \/ \E u \in Owners, msg \in RankUtterances : Step(RecordTurn(u, msg, None, NoFail))
    \/ \E u \in Owners, ctx \in Contexts, limit \in Limits : Step(GetRelevant(u, ctx, limit))
    \/ \E d \in TickDays : Step(Tick(d))

SpecLimit == Init /\ [][NextLimit]_vars

-----------------------------------------------------------------------------
(* Properties.                                                             *)

\* C1: owner isolation.  The memories a ranking call returns for an owner, and
\* the memories the resolver picks as the similar (merge) target for a candidate
\* of an owner, all belong to that owner, whatever the other owners stored.
OwnerIsolation ==
    /\ last.op \in {"retrieveContext", "chat"} =>
            \A i \in Range(last.returned) : store[i].userId = last.owner
    /\ last.op \in {"recordTurn", "chat"} =>
            \A i \in Range(last.merged) : store[i].userId = last.owner

\* a ranking call with the empty filter returned memories while another owner
\* had an active memory in the store
OwnerIsolationWitness ==
    /\ last.op = "retrieveContext"
    /\ last.ctx = EmptyContext
    /\ last.returned # <<>>
    /\ \E j \in Present(store) : store[j].isActive /\ store[j].userId # last.owner

IsNumber(s) == Len(s) > 0 /\ RunEnd(s, 1, Digits) = Len(s) + 1

\* the active personal facts of owner u that state an age (a number)
AgeFacts(st, u) ==
    {i \in ActiveOf(st, u) : st[i].type = "personal_fact" /\ IsNumber(st[i].content)}

\* C2: correction.  When an owner's turn "I'm 25" is followed by that owner's
\* turn "Actually, I'm 30", the owner has exactly one active personal fact
\* about the age, and its content is 30.
CorrectionSupersedes ==
    [][(/\ last.op = "recordTurn" /\ last.msg = U25
        /\ last'.op = "recordTurn" /\ last'.msg = U30
        /\ last'.owner = last.owner
        /\ nops' = nops + 1 /\ now' = now)
       => /\ Cardinality(AgeFacts(store', last'.owner)) = 1
          /\ \A i \in AgeFacts(store', last'.owner) : store'[i].content = "30"]_vars

\* an utterance all of whose candidates are personal facts
PersonalFactUtterance(msg, emo) ==
    /\ InsightsOf[msg][emo] # <<>>
    /\ \A k \in DOMAIN InsightsOf[msg][emo] : InsightsOf[msg][emo][k].type = "personal_fact"

\* C3: idempotence.  When an owner's personal-fact turn is followed by the same
\* turn of the same owner, the second one creates no record, and for every
\* candidate of the utterance the owner has exactly one active personal fact
\* with the candidate's content.
IdempotentTurn ==
    [][(/\ last.op = "recordTurn" /\ last'.op = "recordTurn"
        /\ last'.msg = last.msg /\ last'.owner = last.owner /\ last'.ctx = last.ctx
        /\ PersonalFactUtterance(last.msg, last.ctx.emotion)
        /\ nops' = nops + 1 /\ now' = now)
       => /\ Len(store') = Len(store)
          /\ last'.stored = <<>>
          /\ \A k \in DOMAIN InsightsOf[last.msg][last.ctx.emotion] :
                Cardinality({i \in ActiveOf(store', last.owner) :
                    /\ store'[i].type = "personal_fact"
                    /\ store'[i].content =
                           InsightsOf[last.msg][last.ctx.emotion][k].content}) = 1]_vars

\* C8: score ranges.  Every stored memory has importance in 1..10, sentiment in
\* -1..1 and effectiveness in 0..1 (tenths: -10..10 and 0..10).
ScoreRanges ==
    \A i \in Ids(store) :
        /\ store[i].importance >= 1 /\ store[i].importance <= 10
        /\ store[i].sentiment >= -10 /\ store[i].sentiment <= 10
        /\ store[i].effectiveness >= 0 /\ store[i].effectiveness <= 10

\* a manual update went through on a store of two or more memories
ScoreRangesWitness ==
    /\ last.op = "update"
    /\ last.status = 200
    /\ Len(store) >= 2

\* C10: recordTurn returns every memory touched in the turn: the memory created
\* for a candidate, or the existing memory updated by it.
ReturnsAllTouched ==
    (last.op = "recordTurn" /\ last.status = 200 /\ last.fail = NoFail)
        => Range(last.merged) \subseteq Range(last.stored)

\* C4: concurrent turns of one owner.  When every request in flight has ended,
\* an owner has at most one active personal fact of a given content, however
\* the find-similar and store steps of the requests were interleaved.
ConcurrentTurnsSerialized ==
    (\A r \in DOMAIN reqs : reqs[r].pc = "done") =>
        \A i, j \in Ids(store) :
            (/\ store[i].userId = store[j].userId
             /\ store[i].isActive /\ store[j].isActive
             /\ store[i].type = "personal_fact" /\ store[j].type = "personal_fact"
             /\ store[i].content = store[j].content) => i = j

\* C5: read-your-writes in the chat handler.  When the owner has no more
\* active memories than the limit, every memory the turn's resolve step created
\* or updated is in the result of the turn's ranking call.
ReadYourWrites ==
    (/\ last.op = "chat" /\ last.status = 200 /\ last.fail = NoFail
     /\ Cardinality(ActiveOf(store, last.owner)) <= MaxMemoriesPerQuery)
        => (Range(last.stored) \cup Range(last.merged)) \subseteq Range(last.returned)

\* C6: long-term recall.  After u1 stated the colour and the school and sent
\* the filler turns, retrieveContext of u1 with the empty filter returns a
\* memory whose content has "blue" and one whose content has "MIT".
LongTermRecall ==
    (/\ last.op = "retrieveContext" /\ last.owner = "u1" /\ last.ctx = EmptyContext
     /\ unrelated["u1"] = FillerTurns)
        => /\ \E i \in Range(last.returned) : Includes(ToLowerCase(store[i].content), "blue")
           /\ \E i \in Range(last.returned) : Includes(ToLowerCase(store[i].content), "mit")

\* C7: usage is monotone.  No step lowers a memory's accessCount or moves its
\* lastAccessed back in time.
UsageMonotone ==
    [][\A i \in Ids(store) :
          i \in Ids(store') =>
              /\ store'[i].accessCount >= store[i].accessCount
              /\ store'[i].lastAccessed >= store[i].lastAccessed]_vars

SweepSoftDeletes ==
    [][(last'.op = "cleanup" /\ now' = now /\ nops' = nops + 1)
       => \A i \in Present(store') :
            store'[i].isActive =
                (/\ store[i].isActive
                 /\ ~(/\ store[i].userId = last'.owner
                      /\ store[i].importance < 3
                      /\ now - store[i].lastAccessed > 365
                      /\ store[i].effectiveness < 3))]_vars

\* a sweep left an owner with a deactivated memory of importance 1 and
\* effectiveness 0.1 and with an active, equally stale memory of importance 9
SweepSoftDeletesWitness ==
    /\ last.op = "cleanup"
    /\ \E i, j \in Present(store) :
         /\ store[i].userId = last.owner /\ store[j].userId = last.owner
         /\ ~store[i].isActive /\ store[i].importance = 1 /\ store[i].effectiveness = 1
         /\ store[j].isActive /\ store[j].importance = 9
         /\ now - store[j].lastAccessed > 365

\* C13: the sweep of an owner removes exactly that owner's fake memories with
\* last access more than 365 days ago and fewer than 2 accesses.
SweepHardDeletes ==
    [][(last'.op = "cleanup" /\ now' = now /\ nops' = nops + 1)
       => \A i \in Present(store) :
            store'[i].deleted =
                (/\ store[i].userId = last'.owner
                 /\ store[i].type = "fake_memory"
                 /\ now - store[i].lastAccessed > 365
                 /\ store[i].accessCount < 2)]_vars

\* a sweep removed a fake memory of an owner and kept an equally stale one that
\* was accessed twice
SweepHardDeletesWitness ==
    /\ last.op = "cleanup"
    /\ \E i \in Ids(store) : store[i].deleted /\ store[i].userId = last.owner
    /\ \E j \in Present(store) :
         /\ store[j].userId = last.owner /\ store[j].type = "fake_memory"
         /\ store[j].accessCount >= 2 /\ now - store[j].lastAccessed > 365

\* C12: no memory of a kind other than fake_memory is ever removed from the
\* store: it is at most deactivated.
NoHardDeleteOfRealMemories ==
    [][\A i \in Present(store) :
          store[i].type # "fake_memory" => ~store'[i].deleted]_vars

\* the score of the ranking rule, times 9000: 0.4 * (importance - 1) / 9
\* + 0.3 * recencyScore + 0.2 * min(accessCount, 10) / 10 + 0.1 * effectiveness
RankScore(doc, t) ==
    400 * (doc.importance - 1) + 270 * GetRecencyScore(doc, t)
        + 180 * Min2(doc.accessCount, 10) + 90 * doc.effectiveness

\* i is ranked before j: a greater score, then a later updatedAt, then a
\* smaller id
RankedBefore(st, i, j, t) ==
    \/ RankScore(st[i], t) > RankScore(st[j], t)
    \/ /\ RankScore(st[i], t) = RankScore(st[j], t)
       /\ \/ st[i].updatedAt > st[j].updatedAt
          \/ st[i].updatedAt = st[j].updatedAt /\ i < j

\* C14: a ranking call returns the memories in descending order of the
\* weighted score computed from their values at the time of the call, ties
\* broken by updatedAt descending and then id ascending.
RankedByScore ==
    [][(last'.op = "retrieveContext" /\ now' = now /\ nops' = nops + 1)
       => \A a, b \in DOMAIN last'.returned :
            a < b => RankedBefore(store, last'.returned[a], last'.returned[b], now)]_vars

\* C15: for a given store, owner, filter and time a ranking call has one
\* possible result.
RankingDeterministic ==
    \A u \in Owners, ctx \in Contexts : Cardinality(FindRelevant(store, u, ctx)) = 1

\* C16: a ranking call increases the accessCount of every memory it returns by
\* exactly 1 and sets its lastAccessed to the time of the call.
RankingRecordsAccess ==
    [][(last'.op = "retrieveContext" /\ now' = now /\ nops' = nops + 1)
       => \A i \in Range(last'.returned) :
            /\ store'[i].accessCount = store[i].accessCount + 1
            /\ store'[i].lastAccessed = now]_vars

\* a ranking call returned a memory for the second time, days after the first
RankingRecordsAccessWitness ==
    /\ last.op = "retrieveContext"
    /\ \E i \in Range(last.returned) :
         /\ store[i].accessCount = 2
         /\ store[i].lastAccessed = now
         /\ now > 0

\* C17: a ranking call returns at most 10 memories, all of them active, of the
\* requested owner, captured with the emotion of the filter when it has one,
\* and with a tag among the topics of the filter when it has some.
RankingSelection ==
    last.op = "retrieveContext" =>
        /\ Len(last.returned) <= MaxMemoriesPerQuery
        /\ \A i \in Range(last.returned) :
             /\ store[i].isActive
             /\ store[i].userId = last.owner
             /\ (last.ctx.emotion # None =>
                    store[i].userEmotionWhenShared = last.ctx.emotion)
             /\ (last.ctx.topics # {} => store[i].tags \cap last.ctx.topics # {})

UpdateOfMissingIsNotFound ==
    [][(/\ last'.op = "update" /\ last'.status # 400
        /\ now' = now /\ nops' = nops + 1
        /\ \/ last'.target \notin Present(store)
           \/ ~store[last'.target].isActive)
       => /\ last'.status = 404
          /\ store' = store]_vars

\* importance or sentiment of a manual request is out of range (0 stands for
\* an absent importance)
OutOfRange(input) ==
    \/ input.importance # 0 /\ (input.importance < 1 \/ input.importance > 10)
    \/ input.sentiment < -10 \/ input.sentiment > 10

\* C20: a manual creation or update whose importance or sentiment is out of
\* range is turned down and leaves the store as it was.
ManualInputValidated ==
    [][(/\ last'.op \in {"create", "update"}
        /\ now' = now /\ nops' = nops + 1
        /\ OutOfRange(last'.input))
       => /\ last'.status \notin {200, 201}
          /\ store' = store]_vars

\* C21: a ranking call whose find fails, and a turn whose similarity lookup or
\* whose store of a new memory fails, end with an error outcome for the
\* caller, not with a normal return.
StorageErrorsSurfaced ==
    /\ (last.op = "retrieveContext" /\ "find" \in last.fail) => last.status # 200
    /\ (/\ last.op = "recordTurn"
        /\ InsightsOf[last.msg][last.ctx.emotion] # <<>>
        /\ \/ "findSimilar" \in last.fail
           \/ "store" \in last.fail /\ last.merged = <<>>)
            => last.status # 200

CrossSessionRecall ==
    [][(/\ last.op = "chat" /\ last'.op = "chat"
        /\ last'.owner = last.owner /\ last'.session # last.session
        /\ now' = now /\ nops' = nops + 1)
       => \A i \in Range(last.stored) :
            RelevantQuery(store', i, last'.owner,
                          [last'.ctx EXCEPT !.conversationType = None])
                => i \in Range(last'.returned)]_vars

\* the largest importance among the candidates
MaxImportance(insights) ==
    CHOOSE m \in {insights[k].importance : k \in DOMAIN insights} :
        \A k \in DOMAIN insights : m >= insights[k].importance

\* C24: a turn creates a record for none of the candidates that found a similar
\* memory; every memory a candidate merged into has the content of a candidate
\* of the turn, updatedAt and lastAccessed of the time of the turn, and an
\* importance not below the one it had; when all candidates of the turn merged
\* into one memory, it has the content of the last candidate and the largest
\* of its old importance and the candidates' importances, and no other memory
\* changed.
MergeRule ==
    [][(last'.op = "recordTurn" /\ now' = now /\ nops' = nops + 1)
       => LET insights == InsightsOf[last'.msg][last'.ctx.emotion]
          IN  /\ Len(last'.stored) + Len(last'.merged) = Len(insights)
              /\ Len(store') = Len(store) + Len(last'.stored)
              /\ \A i \in Range(last'.merged) :
                    /\ \E k \in DOMAIN insights : store'[i].content = insights[k].content
                    /\ store'[i].updatedAt = now
                    /\ store'[i].lastAccessed = now
                    /\ i \in Ids(store) => store'[i].importance >= store[i].importance
              /\ (last'.stored = <<>> /\ Cardinality(Range(last'.merged)) = 1) =>
                    LET i == last'.merged[1]
                    IN  /\ store'[i].content = insights[Len(insights)].content
                        /\ store'[i].importance =
                               Max2(store[i].importance, MaxImportance(insights))
                        /\ \A j \in Ids(store) \ {i} : store'[j] = store[j]]_vars

\* a turn, days after the memory was created, merged a candidate of importance
\* below the memory's importance and created nothing
MergeRuleWitness ==
    /\ last.op = "recordTurn"
    /\ last.stored = <<>>
    /\ now > 0
    /\ \E i \in Range(last.merged), k \in DOMAIN InsightsOf[last.msg][last.ctx.emotion] :
         /\ store[i].importance > InsightsOf[last.msg][last.ctx.emotion][k].importance
         /\ store[i].updatedAt = now

\* one of the two contents contains the other, letter case aside
ContainsEitherWay(a, b) ==
    \/ Includes(ToLowerCase(a), ToLowerCase(b))
    \/ Includes(ToLowerCase(b), ToLowerCase(a))

\* C25: for every personal_fact candidate of an utterance and every owner that
\* has an active personal_fact whose content contains the candidate's content
\* or is contained in it, the similarity lookup finds a memory to merge into.
SymmetricSimilarity ==
    \A u \in Owners, msg \in TurnUtterances :
        \A k \in DOMAIN InsightsOf[msg][None] :
            LET insight == InsightsOf[msg][None][k]
            IN  (/\ insight.type = "personal_fact"
                 /\ \E i \in ActiveOf(store, u) :
                      /\ store[i].type = "personal_fact"
                      /\ ContainsEitherWay(store[i].content, insight.content))
                    => FindSimilarMemory(store, u, insight) # 0

\* the rules whose pattern matches the utterance, by their index in allPatterns
MatchingRules ==
    [m \in AllUtterances |->
        {k \in DOMAIN AllPatterns : MatchRule(m, AllPatterns[k]).ok}]

\* the j-th smallest element of a set of numbers
Nth(S, j) == CHOOSE k \in S : Cardinality({x \in S : x < k}) = j - 1

\* C26: extractInsights leaves the store alone and returns one candidate for
\* every rule that matches the utterance, in the order of the rules and with
\* the rule's type and importance, followed by one emotional_pattern candidate
\* exactly when an emotion other than neutral is given.
ExtractionShape ==
    [][(last'.op = "extract" /\ now' = now /\ nops' = nops + 1)
       => LET rules == MatchingRules[last'.msg]
              n == Cardinality(rules)
              emotion == last'.ctx.emotion
              extra == emotion # None /\ emotion # "neutral"
              insights == last'.insights
          IN  /\ store' = store
              /\ Len(insights) = n + (IF extra THEN 1 ELSE 0)
              /\ \A j \in 1..n :
                    /\ insights[j].type = AllPatterns[Nth(rules, j)].type
                    /\ insights[j].importance = AllPatterns[Nth(rules, j)].importance
              /\ extra => /\ insights[n + 1].type = "emotional_pattern"
                          /\ emotion \in insights[n + 1].tags]_vars

\* extractInsights on a non-empty store returned two candidates of the same
\* type and content, for an utterance given with the emotion neutral
ExtractionShapeWitness ==
    /\ last.op = "extract"
    /\ last.ctx.emotion = "neutral"
    /\ store # <<>>
    /\ Len(last.insights) = 2
    /\ last.insights[1].type = last.insights[2].type
    /\ last.insights[1].content = last.insights[2].content

\* C27: after every turn each owner has at most one active memory of each type
\* other than personal_fact, and for every such type among the candidates of
\* the turn the owner's memory of that type has the content of the turn's last
\* candidate of the type.
OneMemoryPerKind ==
    [][(last'.op = "recordTurn" /\ now' = now /\ nops' = nops + 1)
       => LET insights == InsightsOf[last'.msg][last'.ctx.emotion]
          IN  /\ \A u \in Owners : \A i, j \in ActiveOf(store', u) :
                    (/\ store'[i].type = store'[j].type
                     /\ store'[i].type # "personal_fact") => i = j
              /\ \A k \in DOMAIN insights :
                    (/\ insights[k].type # "personal_fact"
                     /\ \A l \in DOMAIN insights :
                            l > k => insights[l].type # insights[k].type)
                        => \E i \in ActiveOf(store', last'.owner) :
                              /\ store'[i].type = insights[k].type
                              /\ store'[i].content = insights[k].content]_vars

\* a turn merged its preference candidate "My favorite" into the owner's
\* preference memory that an "I love" turn had created with importance 7
OneMemoryPerKindWitness ==
    /\ last.op = "recordTurn"
    /\ last.msg = UBlue
    /\ \E i \in Range(last.merged) :
         /\ i \notin Range(last.stored)
         /\ store[i].type = "preference"
         /\ store[i].content = "My favorite"
         /\ store[i].importance = 7

\* C28: a memory that is not active stays in the store's sequence and is not
\* active after any step.
SoftDeleteAbsorbing ==
    [][\A i \in Ids(store) :
          ~store[i].isActive => (i \in Ids(store') /\ ~store'[i].isActive)]_vars

\* a manual update overwrote the content of a deactivated memory, which is
\* still not active
SoftDeleteAbsorbingWitness ==
    /\ last.op = "update"
    /\ last.status = 200
    /\ last.target \in Present(store)
    /\ ~store[last.target].isActive
    /\ store[last.target].content = "30"

\* C29: when every request in flight has ended, each memory's accessCount is
\* the number of ranking requests that loaded it, however the loads and the
\* saves of the requests were interleaved.
AccessCountExact ==
    (\A r \in DOMAIN reqs : reqs[r].pc = "done") =>
        \A i \in Present(store) :
            store[i].accessCount =
                Cardinality({r \in DOMAIN reqs :
                                /\ reqs[r].kind = "rank"
                                /\ \E j \in DOMAIN reqs[r].snap : reqs[r].snap[j].id = i})

\* C30: a request for the relevant memories changes accessCount and
\* lastAccessed of no memory that it does not hand back.
RankingTouchesReturnedOnly ==
    [][(last'.op = "relevant" /\ now' = now /\ nops' = nops + 1)
       => \A i \in Ids(store) :
            i \notin Range(last'.returned) =>
                /\ store'[i].accessCount = store[i].accessCount
                /\ store'[i].lastAccessed = store[i].lastAccessed]_vars

====
